---- MODULE Spec2Model ----
(***************************************************************************)
(* Model of package versioning (src/versioning/versioning.go): a greeter   *)
(* endpoint /{version}/greet whose single handler decodes two request      *)
(* shapes into one GreetRequest.                                           *)
(*                                                                         *)
(* A request body is a sequence of JSON tokens.  Strings are carried       *)
(* already unquoted, numbers stand for every non-string, non-null scalar,  *)
(* white space is dropped.  json.Decoder reads the first JSON value of the *)
(* stream (ParseValue) and leaves what follows it unread; the value is     *)
(* then stored into the Go value handed to Decode.                         *)
(***************************************************************************)
EXTENDS Integers, Sequences, FiniteSets, TLC

VARIABLES
    version,   \* version[i]: mux.Vars(r)["version"] of call i
    body,      \* body[i]: tokens of r.Body
    pc,        \* pc[i]: position of call i
    heap,      \* heap[a]: the GreetRequest at address a
    req,       \* req[i]: address of the GreetRequest call i decodes into
    wrapper,   \* wrapper[i]: the GreetRequestV1 built by fromV1
    err,       \* err[i]: the error Decode returned
    resp,      \* resp[i]: what the handler wrote to the ResponseWriter
    entry      \* entry[i]: the Name the receiver held when Decode was called

vars == <<version, body, pc, heap, req, wrapper, err, resp, entry>>

----------------------------------------------------------------------------
(* Bounds *)

\* concurrent GreetHandler invocations
NumRequests == 2
\* members of a generated JSON object
MaxMembers == 2

----------------------------------------------------------------------------
(* JSON tokens *)

Tok(t, s) == [t |-> t, s |-> s]
LBrace == Tok("{", "")
RBrace == Tok("}", "")
Colon  == Tok(":", "")
Comma  == Tok(",", "")
Null   == Tok("null", "")
Num    == Tok("number", "")
Str(s) == Tok("string", s)

\* errors, by their kind; nil is no error
nil == "nil"
ErrEOF == "EOF"
ErrUnexpectedEOF == "unexpected EOF"
SyntaxError == "invalid character"
UnmarshalTypeError == "json: cannot unmarshal"

NIL == 0

----------------------------------------------------------------------------
(* encoding/json as the code uses it *)

\* A parsed value: kind, the string (kind "string"), the members in order
\* (kind "object").
Val(kind, s, members) == [kind |-> kind, s |-> s, members |-> members]

Parsed(e, next, val) == [err |-> e, next |-> next, val |-> val]
Failed(toks, i) ==
    Parsed(IF i > Len(toks) THEN ErrUnexpectedEOF ELSE SyntaxError, i, Val("null", "", <<>>))

RECURSIVE ParseValue(_, _)
RECURSIVE ParseMembers(_, _, _)

\* The scanner on the value starting at token i: the value and the index
\* after it, or the error.
ParseValue(toks, i) ==
    IF i > Len(toks) THEN Failed(toks, i)
    ELSE LET t == toks[i] IN
         CASE t.t = "string" -> Parsed(nil, i + 1, Val("string", t.s, <<>>))
           [] t.t = "number" -> Parsed(nil, i + 1, Val("number", "", <<>>))
           [] t.t = "null"   -> Parsed(nil, i + 1, Val("null", "", <<>>))
           [] t.t = "{" ->
                IF i + 1 <= Len(toks) /\ toks[i + 1] = RBrace
                THEN Parsed(nil, i + 2, Val("object", "", <<>>))
                ELSE ParseMembers(toks, i + 1, <<>>)
           [] OTHER -> Failed(toks, i)

\* Members of an object from the key at token i on: key, colon, value, then
\* a comma and another member or the closing brace.
ParseMembers(toks, i, acc) ==
    IF i > Len(toks) \/ toks[i].t # "string" THEN Failed(toks, i)
    ELSE IF i + 1 > Len(toks) \/ toks[i + 1] # Colon THEN Failed(toks, i + 1)
    ELSE LET v == ParseValue(toks, i + 2)
             m == Append(acc, [k |-> toks[i].s, v |-> v.val])
         IN  IF v.err # nil THEN v
             ELSE IF v.next > Len(toks) THEN Failed(toks, v.next)
             ELSE IF toks[v.next] = RBrace
                  THEN Parsed(nil, v.next + 1, Val("object", "", m))
             ELSE IF toks[v.next] = Comma THEN ParseMembers(toks, v.next + 1, m)
             ELSE Failed(toks, v.next)

\* Decoder.readValue: the first value of the stream.  An empty stream is
\* io.EOF, a stream that ends inside the value io.ErrUnexpectedEOF.
ReadValue(toks) ==
    IF Len(toks) = 0 THEN Parsed(ErrEOF, 1, Val("null", "", <<>>))
    ELSE ParseValue(toks, 1)

\* The first error wins (decodeState.saveError).
SaveError(saved, e) == IF saved = nil THEN e ELSE saved

\* Store a JSON value into a Go string field holding cur: a string is
\* assigned, null leaves the field alone, anything else is a type error.
StoreString(cur, v) ==
    CASE v.kind = "string" -> [err |-> nil, s |-> v.s]
      [] v.kind = "null"   -> [err |-> nil, s |-> cur]
      [] OTHER             -> [err |-> UnmarshalTypeError, s |-> cur]

\* A JSON key names the struct field whose json tag it equals, or else equals
\* but for case.  FieldKey is the tag a key stands for; of the generated keys
\* only NAME differs from a tag in case alone.
FieldKey(k) == IF k = "NAME" THEN "name" ELSE k

\* GreetRequest has one field, Name `json:"name"`.
RECURSIVE StoreGreetRequest(_, _, _, _)
StoreGreetRequest(members, k, g, saved) ==
    IF k > Len(members) THEN [err |-> saved, g |-> g]
    ELSE LET m == members[k] IN
         IF FieldKey(m.k) = "name"
         THEN LET st == StoreString(g.Name, m.v)
              IN  StoreGreetRequest(members, k + 1, [g EXCEPT !.Name = st.s],
                                    SaveError(saved, st.err))
         ELSE StoreGreetRequest(members, k + 1, g, saved)

\* json.Unmarshal of a value into a *GreetRequest holding g: an object is
\* stored member by member, null stores nothing, any other value is a type
\* error.  Members stored before an ill-typed one stay stored.
UnmarshalGreetRequest(val, g) ==
    CASE val.kind = "object" -> StoreGreetRequest(val.members, 1, g, nil)
      [] val.kind = "null"   -> [err |-> nil, g |-> g]
      [] OTHER               -> [err |-> UnmarshalTypeError, g |-> g]

\* The zero value of the local type grv1: the fields of GreetRequestV1
\* without its methods.  GreetRequest is the embedded pointer: <<>> is nil,
\* <<g>> points to a GreetRequest the decoder allocated for this value alone.
ZeroV1 == [GreetRequest |-> <<>>, FirstName |-> "", LastName |-> ""]

\* grv1 has the fields firstName, lastName and, promoted from the embedded
\* *GreetRequest, name; the decoder allocates the embedded struct when it
\* meets the key.
RECURSIVE StoreV1(_, _, _, _)
StoreV1(members, k, v, saved) ==
    IF k > Len(members) THEN [err |-> saved, v |-> v]
    ELSE LET m == members[k] IN
         CASE FieldKey(m.k) = "firstName" ->
                LET st == StoreString(v.FirstName, m.v)
                IN  StoreV1(members, k + 1, [v EXCEPT !.FirstName = st.s],
                            SaveError(saved, st.err))
           [] FieldKey(m.k) = "lastName" ->
                LET st == StoreString(v.LastName, m.v)
                IN  StoreV1(members, k + 1, [v EXCEPT !.LastName = st.s],
                            SaveError(saved, st.err))
           [] FieldKey(m.k) = "name" ->
                LET g  == IF v.GreetRequest = <<>> THEN [Name |-> ""]
                          ELSE v.GreetRequest[1]
                    st == StoreString(g.Name, m.v)
                IN  StoreV1(members, k + 1,
                            [v EXCEPT !.GreetRequest = <<[Name |-> st.s]>>],
                            SaveError(saved, st.err))
           [] OTHER -> StoreV1(members, k + 1, v, saved)

\* Faulty variant: a body without firstName or lastName is an error.
UnmarshalV1Strict(val) ==
    LET has(key) == val.kind = "object"
                    /\ \E k \in 1..Len(val.members) : FieldKey(val.members[k].k) = key
        d == CASE val.kind = "object" -> StoreV1(val.members, 1, ZeroV1, nil)
               [] val.kind = "null"   -> [err |-> nil, v |-> ZeroV1]
               [] OTHER               -> [err |-> UnmarshalTypeError, v |-> ZeroV1]
    IN  IF has("firstName") /\ has("lastName") THEN d
        ELSE [d EXCEPT !.err = SaveError(d.err, UnmarshalTypeError)]

\* json.Unmarshal(b, &v1r) of UnmarshalJSON, v1r the zero grv1.
UnmarshalV1(val) ==
    CASE val.kind = "object" -> StoreV1(val.members, 1, ZeroV1, nil)
      [] val.kind = "null"   -> [err |-> nil, v |-> ZeroV1]
      [] OTHER               -> [err |-> UnmarshalTypeError, v |-> ZeroV1]

----------------------------------------------------------------------------
(* The request types *)

\* Faulty variant: the halves joined without the space.
FullNameNoSpace(first, last) == first \o last

\* Faulty variant: no space next to an empty half.
FullNameSkipEmpty(first, last) ==
    IF first = "" \/ last = "" THEN first \o last ELSE first \o " " \o last

\* v1r.FirstName + " " + v1r.LastName
FullName(first, last) == first \o " " \o last

\* Faulty variant: Name is assigned before the error is looked at.
UnmarshalJSONEager(r, val, h) ==
    LET d == UnmarshalV1(val)
        w == [h EXCEPT ![r.GreetRequest].Name = FullName(d.v.FirstName, d.v.LastName)]
    IN  IF r.GreetRequest = NIL THEN [err |-> nil, heap |-> h, panic |-> TRUE]
        ELSE [err |-> d.err, heap |-> w, panic |-> FALSE]

\* GreetRequestV1.UnmarshalJSON on the receiver r (a copy of the
\* GreetRequestV1, its embedded pointer still the caller's) and the value b:
\* the error and the heap it leaves.  Assigning through a nil embedded
\* pointer panics.
UnmarshalJSON(r, val, h) ==
    LET d == UnmarshalV1(val)
    IN  IF d.err # nil THEN [err |-> d.err, heap |-> h, panic |-> FALSE]
        ELSE IF r.GreetRequest = NIL THEN [err |-> nil, heap |-> h, panic |-> TRUE]
        ELSE [err   |-> nil,
              heap  |-> [h EXCEPT ![r.GreetRequest].Name =
                                      FullName(d.v.FirstName, d.v.LastName)],
              panic |-> FALSE]

\* Faulty variant: the wrapper is built without the receiver.
fromV1Nil(gr) == [GreetRequest |-> NIL, FirstName |-> "", LastName |-> ""]

\* gr.fromV1(): &GreetRequestV1{GreetRequest: gr}
fromV1(gr) == [GreetRequest |-> gr, FirstName |-> "", LastName |-> ""]

NoWrapper == [GreetRequest |-> NIL, FirstName |-> "", LastName |-> ""]

\* Faulty variant: every tag but "v2" takes the legacy case.
IsLegacyUnlessV2(v) == v # "v2"

\* switch version { case "v1": ... default: ... }
IsV1(v) == v = "v1"

\* gr.Decode(version, r) as one step, on the heap h: the error it returns and
\* the heap it leaves.
Decode(v, toks, gr, h) ==
    LET rv == ReadValue(toks)
        d  == UnmarshalGreetRequest(rv.val, h[gr])
    IN  IF rv.err # nil THEN [err |-> rv.err, heap |-> h, panic |-> FALSE]
        ELSE IF IsV1(v) THEN UnmarshalJSON(fromV1(gr), rv.val, h)
        ELSE [err |-> d.err, heap |-> [h EXCEPT ![gr] = d.g], panic |-> FALSE]

\* Decode, case "v1", up to the call of UnmarshalJSON: the wrapper is built,
\* the decoder reads the first value and, finding a json.Unmarshaler, hands
\* it the value.  A stream with no complete value returns the scanner's
\* error at once.
DecodeV1(i) ==
    /\ pc[i] = "decode"
    /\ IsV1(version[i])
    /\ wrapper' = [wrapper EXCEPT ![i] = fromV1(req[i])]
    /\ LET rv == ReadValue(body[i])
       IN  IF rv.err # nil
           THEN /\ err' = [err EXCEPT ![i] = rv.err]
                /\ pc' = [pc EXCEPT ![i] = "returned"]
           ELSE /\ pc' = [pc EXCEPT ![i] = "unmarshal"]
                /\ UNCHANGED err
    /\ UNCHANGED <<version, body, heap, req, resp, entry>>

\* UnmarshalJSON runs on a copy of the wrapper and Decode returns its error.
UnmarshalJSONCall(i) ==
    /\ pc[i] = "unmarshal"
    /\ LET r == wrapper[i]
           u == UnmarshalJSON(r, ReadValue(body[i]).val, heap)
       IN  /\ heap' = u.heap
           /\ err' = [err EXCEPT ![i] = u.err]
           /\ pc' = [pc EXCEPT ![i] = IF u.panic THEN "panic" ELSE "returned"]
    /\ UNCHANGED <<version, body, req, wrapper, resp, entry>>

\* Decode, default case: the first value of the stream is stored into the
\* receiver itself.
DecodeDefault(i) ==
    /\ pc[i] = "decode"
    /\ ~IsV1(version[i])
    /\ LET d == Decode(version[i], body[i], req[i], heap)
       IN  /\ err' = [err EXCEPT ![i] = d.err]
           /\ heap' = d.heap
    /\ pc' = [pc EXCEPT ![i] = "returned"]
    /\ UNCHANGED <<version, body, req, wrapper, resp, entry>>

----------------------------------------------------------------------------
(* The handler *)

StatusOK == 200
StatusBadRequest == 400

Write(status, text) == [status |-> status, body |-> text]

\* fmt.Sprintf("Hello %s!", req.Name)
Greeting(name) == "Hello " \o name \o "!"

\* json.NewEncoder(w).Encode(map[string]string{"greeting": greeting}): the
\* object, then a newline (the generated names hold no character that JSON
\* escapes).
EncodeGreeting(greeting) == "{\"greeting\":\"" \o greeting \o "\"}\n"

\* Faulty variant: no return after http.Error.
GreetHandlerWritesNoReturn(e, name) ==
    IF e # nil
    THEN <<Write(StatusBadRequest, e \o "\n"),
           Write(StatusBadRequest, EncodeGreeting(Greeting(name)))>>
    ELSE <<Write(StatusOK, EncodeGreeting(Greeting(name)))>>

\* What GreetHandler writes once Decode has returned e and left name in req:
\* http.Error(w, err.Error(), 400) and return, or the encoded greeting.
GreetHandlerWrites(e, name) ==
    IF e # nil
    THEN <<Write(StatusBadRequest, e \o "\n")>>
    ELSE <<Write(StatusOK, EncodeGreeting(Greeting(name)))>>

\* Faulty variant: req is one package-level variable.
NewGreetRequestShared(i) == 1

\* var req GreetRequest: a variable of this invocation, at an address of its
\* own.
NewGreetRequest(i) == i

Requests == 1..NumRequests

\* Path segments {version} the router hands over (never empty).
HandlerVersions == {"v1", "v2", "v3"}

Member(k, v) == <<Str(k), Colon, v>>
Object1(m) == <<LBrace>> \o m \o <<RBrace>>
Object2(m, n) == <<LBrace>> \o m \o <<Comma>> \o n \o <<RBrace>>

\* Request bodies: the two of TestApp, one without lastName, one cut short,
\* one with a number for a name, an empty one.
HandlerBodies ==
    { Object2(Member("firstName", Str("John")), Member("lastName", Str("Sample"))),
      Object1(Member("name", Str("Jane Sample"))),
      Object1(Member("firstName", Str("John"))),
      <<LBrace, Str("name"), Colon>>,
      Object1(Member("name", Num)),
      <<>> }

\* GreetHandler up to the call of Decode: the version is read from the path
\* and req is declared, zero.
GreetHandlerBegin(i) ==
    /\ pc[i] = "idle"
    /\ \E v \in HandlerVersions, b \in HandlerBodies :
          /\ version' = [version EXCEPT ![i] = v]
          /\ body' = [body EXCEPT ![i] = b]
    /\ req' = [req EXCEPT ![i] = NewGreetRequest(i)]
    /\ heap' = [heap EXCEPT ![NewGreetRequest(i)] = [Name |-> ""]]
    /\ entry' = [entry EXCEPT ![i] = ""]
    /\ pc' = [pc EXCEPT ![i] = "decode"]
    /\ UNCHANGED <<wrapper, err, resp>>

\* GreetHandler after Decode.
GreetHandlerRespond(i) ==
    /\ pc[i] = "returned"
    /\ resp' = [resp EXCEPT ![i] = GreetHandlerWrites(err[i], heap[req[i]].Name)]
    /\ pc' = [pc EXCEPT ![i] = "done"]
    /\ UNCHANGED <<version, body, heap, req, wrapper, err, entry>>

Init ==
    /\ version = [i \in Requests |-> ""]
    /\ body = [i \in Requests |-> <<>>]
    /\ pc = [i \in Requests |-> "idle"]
    /\ heap = [a \in Requests |-> [Name |-> ""]]
    /\ req = [i \in Requests |-> NIL]
    /\ wrapper = [i \in Requests |-> NoWrapper]
    /\ err = [i \in Requests |-> nil]
    /\ resp = [i \in Requests |-> <<>>]
    /\ entry = [i \in Requests |-> ""]

Next ==
    \E i \in Requests :
        \/ GreetHandlerBegin(i)
        \/ DecodeV1(i)
        \/ UnmarshalJSONCall(i)
        \/ DecodeDefault(i)
        \/ GreetHandlerRespond(i)

\* Concurrent invocations of GreetHandler, one goroutine each.
Spec == Init /\ [][Next]_vars

----------------------------------------------------------------------------
(* Decode called directly, on a receiver that may already hold a Name *)

Versions == {"v1", "v2", "", "v3"}
Keys == {"firstName", "lastName", "name", "NAME", "nick"}
Strs == {"", "John", "Sample"}
Values == {Str(s) : s \in Strs} \cup {Num, Null}
PriorNames == {"", "Old Name"}

Members == {Member(k, v) : k \in Keys, v \in Values}

RECURSIVE Join(_)
Join(ms) ==
    IF Len(ms) = 0 THEN <<>>
    ELSE IF Len(ms) = 1 THEN ms[1]
    ELSE ms[1] \o <<Comma>> \o Join(Tail(ms))

\* Every object of at most MaxMembers members, and every scalar.
Documents ==
    {<<LBrace>> \o Join(ms) \o <<RBrace>> :
        ms \in UNION {[1..n -> Members] : n \in 0..MaxMembers}}
    \cup {<<v>> : v \in Values}

\* The same cut short at every length, and followed by a stray brace.
Truncated == UNION {{SubSeq(d, 1, n) : n \in 0..Len(d) - 1} : d \in Documents}
Trailing == {d \o <<RBrace>> : d \in Documents}
\* Objects of one member with one token replaced by a colon or a brace.
Garbled ==
    {[d EXCEPT ![n] = t] :
        d \in {Object1(m) : m \in Members}, n \in 1..5, t \in {Colon, LBrace}}

Payloads == Documents \cup Truncated \cup Trailing \cup Garbled

InitDecode ==
    /\ version \in [{1} -> Versions]
    /\ body \in [{1} -> Payloads]
    /\ pc = [i \in {1} |-> "decode"]
    /\ heap \in [{1} -> [Name : PriorNames]]
    /\ req = [i \in {1} |-> 1]
    /\ wrapper = [i \in {1} |-> NoWrapper]
    /\ err = [i \in {1} |-> nil]
    /\ resp = [i \in {1} |-> <<>>]
    /\ entry = [i \in {1} |-> heap[i].Name]

NextDecode ==
    \E i \in {1} :
        \/ DecodeV1(i)
        \/ UnmarshalJSONCall(i)
        \/ DecodeDefault(i)

SpecDecode == InitDecode /\ [][NextDecode]_vars

----------------------------------------------------------------------------
(* What the properties say about a body, read off its tokens *)

Calls == DOMAIN pc

Scalars == {"string", "number", "null"}

\* The body starts with an object of n members, each a key and a scalar.
ObjectOf(b, n) ==
    IF n = 0 THEN Len(b) >= 2 /\ b[1] = LBrace /\ b[2] = RBrace
    ELSE /\ Len(b) >= 4 * n + 1
         /\ b[1] = LBrace
         /\ \A j \in 1..n :
               /\ b[4 * j - 2].t = "string"
               /\ b[4 * j - 1] = Colon
               /\ b[4 * j].t \in Scalars
               /\ b[4 * j + 1] = IF j = n THEN RBrace ELSE Comma

StartsWithObject(b) == \E n \in 0..MaxMembers : ObjectOf(b, n)
Count(b) == CHOOSE n \in 0..MaxMembers : ObjectOf(b, n)
ObjectLen(b) == IF Count(b) = 0 THEN 2 ELSE 4 * Count(b) + 1

\* The body is one JSON document and nothing else.
IsDocument(b) ==
    \/ StartsWithObject(b) /\ Len(b) = ObjectLen(b)
    \/ Len(b) = 1 /\ b[1].t \in Scalars

\* The key as the properties read it: letter case does not count.
SameKey(k, key) == k = key \/ (k = "NAME" /\ key = "name")
\* The members keyed key, by position.
Keyed(b, key) == {j \in 1..Count(b) : SameKey(b[4 * j - 2].s, key)}
Has(b, key) == Keyed(b, key) # {}
\* The members keyed key that give a string.
Given(b, key) == {j \in Keyed(b, key) : b[4 * j].t = "string"}
\* The string the document gives for key: its last one; empty when it gives
\* none.
Field(b, key) ==
    IF Given(b, key) = {} THEN ""
    ELSE b[4 * (CHOOSE j \in Given(b, key) : \A k \in Given(b, key) : k <= j)].s
\* No member keyed key holds a number.
WellTyped(b, key) == \A j \in Keyed(b, key) : b[4 * j].t # "number"

V1Fields == {"firstName", "lastName", "name"}

Returned(i) == pc[i] = "returned"
Name(i) == heap[req[i]].Name

----------------------------------------------------------------------------
(* Properties *)

\* C1: under tag "v1", a body whose object gives strings for firstName and
\* for lastName, and no number for a field of the shape, decodes without
\* error to Name = firstName, one space, lastName, verbatim.
C1_V1Concatenates ==
    \A i \in Calls :
        (/\ Returned(i) /\ version[i] = "v1"
         /\ StartsWithObject(body[i])
         /\ \A k \in V1Fields : WellTyped(body[i], k)
         /\ Given(body[i], "firstName") # {}
         /\ Given(body[i], "lastName") # {})
        => /\ err[i] = nil
           /\ Name(i) = Field(body[i], "firstName") \o " " \o Field(body[i], "lastName")

C1_Witness ==
    /\ Returned(1) /\ version[1] = "v1" /\ err[1] = nil
    /\ body[1] = Object2(Member("firstName", Str("John")),
                         Member("lastName", Str("Sample")))
    /\ Name(1) = "John Sample"

\* C2: under every tag but "v1", a body whose object gives a string for name
\* and no number for it decodes without error to Name = that string.
C2_DefaultIsIdentity ==
    \A i \in Calls :
        (/\ Returned(i) /\ version[i] # "v1"
         /\ StartsWithObject(body[i])
         /\ WellTyped(body[i], "name")
         /\ Given(body[i], "name") # {})
        => /\ err[i] = nil
           /\ Name(i) = Field(body[i], "name")

C2_Witness ==
    /\ Returned(1) /\ version[1] = "" /\ err[1] = nil
    /\ body[1] = Object1(Member("name", Str("John")))
    /\ entry[1] = "Old Name"
    /\ Name(1) = "John"

\* C3: a finished GreetHandler has written exactly once: status 200 and the
\* greeting "Hello <Name>!" when Decode returned nil, status 400 and the
\* error's message when it did not; an unfinished one has written nothing.
C3_OneOutcome ==
    \A i \in Calls :
        /\ pc[i] # "done" => resp[i] = <<>>
        /\ pc[i] = "done" =>
              /\ Len(resp[i]) = 1
              /\ err[i] = nil =>
                    /\ resp[i][1].status = 200
                    /\ resp[i][1].body = "{\"greeting\":\"Hello " \o Name(i) \o "!\"}\n"
              /\ err[i] # nil =>
                    /\ resp[i][1].status = 400
                    /\ resp[i][1].body = err[i] \o "\n"

C3_Witness ==
    /\ pc[1] = "done" /\ pc[2] = "done"
    /\ resp[1] = <<[status |-> 200, body |-> "{\"greeting\":\"Hello John Sample!\"}\n"]>>
    /\ resp[2] = <<[status |-> 400, body |-> "unexpected EOF\n"]>>

\* A field of the tag's shape holds a number.
WrongType(v, b) ==
    /\ StartsWithObject(b)
    /\ \E k \in (IF v = "v1" THEN V1Fields ELSE {"name"}) : ~WellTyped(b, k)

\* C4: under every tag, a body that is no JSON document, or that holds a
\* field of the wrong type, makes Decode return an error.
C4_MalformedFails ==
    \A i \in Calls :
        (Returned(i) /\ (~IsDocument(body[i]) \/ WrongType(version[i], body[i])))
        => err[i] # nil

\* C5: under tag "v1", a body whose object leaves out firstName or lastName
\* (and holds no number for a field of the shape) decodes without error, the
\* missing half empty: Name = firstName, one space, lastName.
C5_MissingHalfIsEmpty ==
    \A i \in Calls :
        (/\ Returned(i) /\ version[i] = "v1"
         /\ StartsWithObject(body[i])
         /\ \A k \in V1Fields : WellTyped(body[i], k)
         /\ ~Has(body[i], "firstName") \/ ~Has(body[i], "lastName"))
        => /\ err[i] = nil
           /\ ~Has(body[i], "lastName") =>
                 Name(i) = Field(body[i], "firstName") \o " "
           /\ ~Has(body[i], "firstName") =>
                 Name(i) = " " \o Field(body[i], "lastName")

C5_Witness ==
    /\ Returned(1) /\ version[1] = "v1" /\ err[1] = nil
    /\ body[1] = Object1(Member("firstName", Str("John")))
    /\ Name(1) = "John "

\* The body's object leaves out a field the tag's shape requires.
MissingRequired(v, b) ==
    /\ StartsWithObject(b)
    /\ IF v = "v1" THEN ~Has(b, "firstName") \/ ~Has(b, "lastName")
       ELSE ~Has(b, "name")

\* C6, as stated: a body that leaves out a required field makes Decode
\* return an error, on the legacy and on the default path.
C6_MissingFieldFails ==
    \A i \in Calls :
        (Returned(i) /\ MissingRequired(version[i], body[i])) => err[i] # nil

\* C6, amended: a body that leaves out a field of the tag's shape, and holds
\* no number for one, is no error on either path: under "v1" the missing half
\* of the name is empty, under every other tag Name is what it was before the
\* call.
C6_MissingFieldAccepted ==
    \A i \in Calls :
        (/\ Returned(i)
         /\ MissingRequired(version[i], body[i])
         /\ ~WrongType(version[i], body[i]))
        => /\ err[i] = nil
           /\ version[i] = "v1" =>
                 Name(i) = Field(body[i], "firstName") \o " " \o Field(body[i], "lastName")
           /\ version[i] # "v1" => Name(i) = entry[i]

C6_Witness ==
    /\ Returned(1) /\ version[1] = "v2" /\ err[1] = nil
    /\ body[1] = Object1(Member("nick", Str("John")))
    /\ entry[1] = "Old Name"
    /\ Name(1) = "Old Name"

\* The Name the tag's rule derives from the body, a field the body does not
\* give counting as empty.
Derived(v, b) ==
    IF ~StartsWithObject(b) THEN IF v = "v1" THEN " " ELSE ""
    ELSE IF v = "v1" THEN Field(b, "firstName") \o " " \o Field(b, "lastName")
    ELSE Field(b, "name")

\* C7: after every successful Decode, whatever Name the receiver held
\* before, Name is the value the tag's rule derives from the body.
C7_NameIsDerived ==
    \A i \in Calls :
        (Returned(i) /\ err[i] = nil) => Name(i) = Derived(version[i], body[i])

\* What one invocation yields when it runs alone: Decode on a zero
\* GreetRequest of its own, then the response.
Alone(v, b) ==
    LET d == Decode(v, b, 1, [a \in {1} |-> [Name |-> ""]])
    IN  [err |-> d.err, name |-> d.heap[1].Name,
         resp |-> GreetHandlerWrites(d.err, d.heap[1].Name)]

\* C8: under every interleaving, each invocation decodes into a
\* GreetRequest no other invocation uses, and its Name, error and response
\* are those of the same request run alone.
C8_Independent ==
    \A i \in Calls :
        /\ \A j \in Calls : (i # j /\ req[i] # NIL) => req[i] # req[j]
        /\ pc[i] \in {"returned", "done"} =>
              /\ Name(i) = Alone(version[i], body[i]).name
              /\ err[i] = Alone(version[i], body[i]).err
        /\ pc[i] = "done" => resp[i] = Alone(version[i], body[i]).resp

C8_Witness ==
    /\ pc[1] = "returned" /\ pc[2] = "unmarshal"
    /\ Name(1) = "Jane Sample" /\ Name(2) = ""
    /\ version[2] = "v1"

\* C9: while the v1 adapter runs, the record it wraps is not nil and is the
\* record Decode was called on, the adapter never panics, and once it has
\* returned nil the caller reads the Name it assigned.
C9_WrapsReceiver ==
    \A i \in Calls :
        /\ pc[i] # "panic"
        /\ pc[i] = "unmarshal" =>
              /\ wrapper[i].GreetRequest # NIL
              /\ wrapper[i].GreetRequest = req[i]
        /\ (pc[i] \in {"returned", "done"} /\ version[i] = "v1" /\ err[i] = nil) =>
              /\ wrapper[i].GreetRequest = req[i]
              /\ Name(i) = Derived("v1", body[i])

C9_Witness ==
    /\ pc[1] = "returned" /\ version[1] = "v1" /\ err[1] = nil
    /\ wrapper[1].GreetRequest = req[1]
    /\ Name(1) = "John Sample"

\* C10: when Decode under tag "v1" returns an error, Name is what it was
\* before the call.
C10_FailedV1KeepsName ==
    \A i \in Calls :
        (Returned(i) /\ version[i] = "v1" /\ err[i] # nil) => Name(i) = entry[i]

C10_Witness ==
    /\ Returned(1) /\ version[1] = "v1" /\ err[1] = UnmarshalTypeError
    /\ body[1] = Object2(Member("firstName", Str("John")), Member("lastName", Num))
    /\ entry[1] = "Old Name"
    /\ Name(1) = "Old Name"

====
